---- MODULE Spec2Model ----
(***************************************************************************)
(* A model of the Bluepages MCP server (plugins/bluepages/mcp-server.js):  *)
(* the authentication selector, the authenticated request executor         *)
(* (fetchWithAuth), the credit tracker (checkCreditsAndNotify), the batch  *)
(* streaming driver (processBatchWithStreaming) and the tool-call handler. *)
(*                                                                         *)
(* One control flow is modelled: the startup query of main, then tool      *)
(* invocations one after the other.  Every await of the code that waits    *)
(* for the network is a step of its own; the upstream server and the       *)
(* caller are the environment, their choices drawn with \E.                *)
(***************************************************************************)
EXTENDS Integers, Sequences, FiniteSets, TLC

VARIABLES
    API_KEY,              \* BLUEPAGES_API_KEY is set (fixed at process start)
    PRIVATE_KEY,          \* PRIVATE_KEY is set (fixed at process start)
    lastKnownCredits,     \* the tracker's last stored balance, Null when unknown
    customAlertThreshold, \* the threshold set_credit_alert writes
    pc,                   \* position of the control flow
    call,                 \* the invocation being handled: tool name and arguments
    req,                  \* the request fetchWithAuth is executing
    response,             \* the last response received
    pending,              \* the argument of the running checkCreditsAndNotify
    cont,                 \* where the running checkCreditsAndNotify returns to
    i,                    \* loop index of processBatchWithStreaming
    results,              \* accumulator of processBatchWithStreaming
    foundItems,           \* accumulator of batch_get_data_streaming's callback
    log,                  \* network calls and notifications of this invocation, in order
    observations,         \* runs of the tracker and stores of main: balance, alert emitted
    outcome,              \* what the handler returned to the host
    paymentHeader,        \* the payment header the running request has built
    draws,                \* executions of createPaymentHeader in this invocation
    flaky,                \* the host's notification channel can reject a message
    undelivered,          \* notifications of this invocation whose delivery failed
    flows                 \* requests in flight side by side, each with its position

vars == <<API_KEY, PRIVATE_KEY, lastKnownCredits, customAlertThreshold, pc, call,
          req, response, pending, cont, i, results, foundItems, log, observations,
          outcome, paymentHeader, draws, flaky, undelivered, flows>>

-----------------------------------------------------------------------------
(* Program constants *)

LOW_CREDIT_WARNING == 1000
CRITICAL_CREDIT_WARNING == 100
batchSize == 50

\* null and undefined (a balance not known, a field or header that is absent)
Null == -1
\* the result of parseInt on a text that does not start with a number
NaN == -2

-----------------------------------------------------------------------------
(* Bounds of the model *)

\* list lengths of SpecBatch are 0..MaxItems and 120
MaxItems == 100
\* list lengths of Spec are 0..MaxSmall and batchSize+1..batchSize+MaxSmall
MaxSmall == 1
\* entries of one response's keyed mapping
MaxEntries == 1
\* observations of one tracker run in SpecTracker
MaxObs == 5

\* balances the upstream reports
Credits == {0, 50, 300, 900, 1500}
\* values of the X-Credits-Remaining header: "" is an absent or empty header
CreditsHeaders == {"", "abc", "0", "50", "300", "900", "1500"}
\* threshold arguments callers pass to set_credit_alert
ThresholdArgs == {500, 1200}
\* the threshold arguments a client can send, the schema not being enforced: a
\* missing one (Null), a text that is no number (NaN), a negative one, valid ones
ThresholdInputs == ThresholdArgs \cup {Null, NaN, 0 - 5}
\* package arguments callers pass to purchase_credits
PackageArgs == {"starter", "pro", "enterprise", "bogus"}
\* HTTP statuses of a response; 0 stands for a transport failure (fetch rejects)
Statuses == {0, 200, 402, 500}

\* values of the X-Credits-Remaining header in SpecNotify
NotifyHeaders == {"", "50", "900"}

SmallCounts == (0..MaxSmall) \cup ((batchSize + 1)..(batchSize + MaxSmall))
BatchCounts == (0..MaxItems) \cup {120}

-----------------------------------------------------------------------------
(* Helpers *)

Min(a, b) == IF a <= b THEN a ELSE b

\* the list 1..n: the n items of an argument list, named by their position
Items(first, n) == [k \in 1..n |-> first + k - 1]

\* JavaScript's <= and > on numbers: every comparison with NaN is false
JsLe(a, b) == a # NaN /\ b # NaN /\ a <= b
JsGt(a, b) == a # NaN /\ b # NaN /\ a > b

\* parseInt(text, 10) on the header values of the model
parseInt(text) ==
    CASE text = "0" -> 0
      [] text = "50" -> 50
      [] text = "300" -> 300
      [] text = "900" -> 900
      [] text = "1500" -> 1500
      [] OTHER -> NaN

\* Math.round(x / y * 100) for y > 0: the nearest integer, a half rounds up
RoundPercent(x, y) == (200 * x + y) \div (2 * y)

-----------------------------------------------------------------------------
(* Authentication selector *)

\* AUTH_MODE without its "none" case
AUTH_MODE_NeverNone == IF API_KEY THEN "api-key" ELSE "x402"

AUTH_MODE == IF API_KEY THEN "api-key" ELSE IF PRIVATE_KEY THEN "x402" ELSE "none"

\* a wallet derived whenever the signing key is set
walletFromPrivateKey == PRIVATE_KEY

\* the wallet exists exactly when the signing key is set and the API key is not
wallet == PRIVATE_KEY /\ ~API_KEY

\* buildHeaders: the X-API-KEY header is attached exactly when API_KEY is set
buildHeaders == [apiKey |-> API_KEY]

-----------------------------------------------------------------------------
(* Log entries *)

\* no payment header
NoPayment == [nonce |-> 0]

\* a createPaymentHeader that returns the same authorization every time
createPaymentHeaderFixed(k) == [nonce |-> 1]

\* createPaymentHeader: the header of the authorization built by the k-th execution
\* of an invocation, which draws its nonce and reads the clock itself
createPaymentHeader(k) == [nonce |-> k]

FetchEvent(endpoint, body, payment) ==
    [ev |-> "fetch", endpoint |-> endpoint, apiKey |-> buildHeaders.apiKey,
     payment |-> payment, authorization |-> IF payment THEN paymentHeader ELSE NoPayment,
     body |-> body]

\* purchase_credits calls fetch itself, with a Content-Type header only
RawFetchEvent(endpoint, payment) ==
    [ev |-> "fetch", endpoint |-> endpoint, apiKey |-> FALSE,
     payment |-> payment, authorization |-> IF payment THEN paymentHeader ELSE NoPayment,
     body |-> <<>>]

\* sendNotification: serverInstance is set at module load, so the message is always
\* handed to the server
sendNotification(level, kind, data) ==
    [ev |-> "note", level |-> level, kind |-> kind, data |-> data]

\* the deliveries of these notifications: serverInstance.notification may reject
\* any of them, and the catch of sendNotification logs the failure and goes on
Deliver(notes) ==
    \E failed \in (IF flaky THEN 0..Len(notes) ELSE {0}) :
        undelivered' = undelivered + failed

\* a response as the code sees it: its status (0: the fetch was rejected), the
\* credits header it carries when the request was made with the API key (a
\* rejected fetch has none), and the body the code parses when the status is 2xx
ResponseEvent(status, header, body) ==
    [ev |-> "response", status |-> status,
     header |-> IF API_KEY /\ status # 0 THEN header ELSE "",
     body |-> IF status = 200 THEN body ELSE [none |-> TRUE]]

IsFetch(e) == e.ev = "fetch"
IsResponse(e) == e.ev = "response"
IsNote(e) == e.ev = "note"
IsAlert(e) == e.ev = "note" /\ e.kind = "alert"

IsUnpaidFetch(e) == e.ev = "fetch" /\ ~e.payment
IsPaidFetch(e) == e.ev = "fetch" /\ e.payment
IsProgress(e) == e.ev = "note" /\ e.kind = "progress"

\* the positions of the entries of s that satisfy Test, in order
Indices(s, Test(_)) == SelectSeq([k \in 1..Len(s) |-> k], LAMBDA k : Test(s[k]))

\* the concatenation of a sequence of sequences
RECURSIVE Flatten(_)
Flatten(ss) == IF ss = <<>> THEN <<>> ELSE Head(ss) \o Flatten(Tail(ss))

-----------------------------------------------------------------------------
(* Values of the per-invocation variables when they hold nothing *)

NoRequest == [kind |-> "none", endpoint |-> "", body |-> <<>>]
NoResponse == [status |-> 0, header |-> "", body |-> [none |-> TRUE]]
NoOutcome == [isError |-> FALSE, kind |-> "pending", records |-> <<>>, text |-> <<>>]

Request(kind, endpoint, body) == [kind |-> kind, endpoint |-> endpoint, body |-> body]

\* the arguments of a call: absent names the list arguments that are not given
NoArgs(name) ==
    [name |-> name, addresses |-> <<>>, twitters |-> <<>>, threshold |-> Null,
     package |-> "", absent |-> {}]

-----------------------------------------------------------------------------
(* The environment: what the upstream answers *)

\* sequences without repetition over K, of length at most n
KeySeqs(K, n) ==
    {s \in UNION {[1..m -> K] : m \in 0..n} :
        \A a, b \in DOMAIN s : a # b => s[a] # s[b]}

\* the keyed mappings (results.addresses) a batch response can carry for a request
\* body: entries for some of the first MaxEntries items sent, in any order, each
\* found or not; the mapping may also be absent from the response
Mappings(body) ==
    LET K == {body[k] : k \in 1..Min(Len(body), MaxEntries)}
    IN  UNION {
          {[k \in 1..Len(ks) |-> [key |-> ks[k], found |-> f[k]]] :
              f \in [1..Len(ks) -> BOOLEAN]} :
          ks \in KeySeqs(K, MaxEntries)}

Bodies(r) ==
    CASE r.kind = "me" -> {[credits |-> c] : c \in Credits \cup {Null}}
      [] r.kind = "stream" ->
            {[present |-> FALSE, entries |-> <<>>]}
            \cup {[present |-> TRUE, entries |-> m] : m \in Mappings(r.body)}
      [] OTHER -> {[none |-> TRUE]}

\* response.ok
Ok(status) == status = 200

-----------------------------------------------------------------------------
(* The tool boundary *)

\* the text `Error: ${error.message}`: one line, the prefix and the message
ErrorText(message) == <<(<<"Error: ", message>>)>>

\* the text returned when no credential is configured, line by line
NotConfiguredText ==
    << <<"Bluepages is not configured. Set one of these environment variables and restart:">>,
       <<"">>,
       <<"Option 1 (recommended): BLUEPAGES_API_KEY">>,
       <<"  Get a key at https://bluepages.fyi/api-keys.html">>,
       <<"  20% cheaper, 2x rate limits">>,
       <<"">>,
       <<"Option 2: PRIVATE_KEY">>,
       <<"  Ethereum private key for x402 payments (USDC on Base)">>,
       <<"  No API key needed, pay per request">> >>

\* a catch block that hands back what the batch had accumulated
ToolCatchPartial(kind) ==
    [isError |-> TRUE, kind |-> kind, records |-> results, text |-> ErrorText(kind)]

\* a catch block that returns the message without the error flag
ToolCatchUnflagged(kind) ==
    [isError |-> FALSE, kind |-> kind, records |-> <<>>, text |-> ErrorText(kind)]

\* the catch block of the tool-call handler: an error result with the message only
ToolCatch(kind) ==
    [isError |-> TRUE, kind |-> kind, records |-> <<>>, text |-> ErrorText(kind)]

\* a result of a tool that has not failed; its text is not modelled line by line
ToolResult(kind, records) ==
    [isError |-> FALSE, kind |-> kind, records |-> records, text |-> <<(<<kind>>)>>]

\* an error that no catch block turns into a result
ThrowUncaught(kind) ==
    /\ response' = NoResponse
    /\ paymentHeader' = NoPayment
    /\ draws' = draws
    /\ pc' = "thrown"
    /\ outcome' = outcome

\* an error thrown while a request of the invocation is being executed: main
\* catches it and goes on, a tool call returns the error result
Throw(kind) ==
    /\ response' = NoResponse
    /\ paymentHeader' = NoPayment
    /\ draws' = draws
    /\ IF call.name = "main"
       THEN pc' = "idle" /\ outcome' = outcome
       ELSE pc' = "done" /\ outcome' = ToolCatch(kind)

\* the handler is entered with a new request: its locals start empty
Accept(c) ==
    /\ pc = "idle"
    /\ call' = c
    /\ observations' = <<>>
    /\ i' = 0
    /\ results' = <<>>
    /\ foundItems' = <<>>
    /\ response' = NoResponse
    /\ pending' = Null
    /\ cont' = "none"
    /\ UNCHANGED <<API_KEY, PRIVATE_KEY, flaky, flows, paymentHeader, draws, lastKnownCredits>>

\* the handler's result goes to the host and the invocation is over: its locals
\* are gone, and the next request can be handled
Respond ==
    /\ pc = "done"
    /\ pc' = "idle"
    /\ call' = NoArgs("main")
    /\ req' = NoRequest
    /\ response' = NoResponse
    /\ pending' = Null
    /\ cont' = "none"
    /\ i' = 0
    /\ results' = <<>>
    /\ foundItems' = <<>>
    /\ log' = <<>>
    /\ observations' = <<>>
    /\ outcome' = NoOutcome
    /\ paymentHeader' = NoPayment
    /\ draws' = 0
    /\ undelivered' = 0
    /\ UNCHANGED <<API_KEY, PRIVATE_KEY, flaky, flows, lastKnownCredits, customAlertThreshold>>

\* the handler throws before its first await
Reject(kind) ==
    /\ pc' = "done"
    /\ outcome' = ToolCatch(kind)
    /\ log' = <<>>
    /\ req' = NoRequest
    /\ UNCHANGED <<customAlertThreshold, undelivered>>

\* the handler starts a request through fetchWithAuth
Start(r, notes) ==
    /\ pc' = "fetch"
    /\ outcome' = NoOutcome
    /\ log' = notes
    /\ req' = r
    /\ UNCHANGED <<customAlertThreshold, undelivered>>

-----------------------------------------------------------------------------
(* Resource usage tracker: checkCreditsAndNotify *)

\* a tracker that warns on every observation at or below the low threshold
CreditAlertRefire(prev, credits) ==
    IF prev = Null THEN <<>>
    ELSE IF JsLe(credits, CRITICAL_CREDIT_WARNING) /\ JsGt(prev, CRITICAL_CREDIT_WARNING)
    THEN <<sendNotification("error", "alert",
              [credits |-> credits, threshold |-> CRITICAL_CREDIT_WARNING])>>
    ELSE IF JsLe(credits, LOW_CREDIT_WARNING)
    THEN <<sendNotification("warning", "alert",
              [credits |-> credits, threshold |-> LOW_CREDIT_WARNING])>>
    ELSE <<>>

\* a tracker whose two tests are independent: both alerts on a double crossing
CreditAlertBoth(prev, credits) ==
    IF prev = Null THEN <<>>
    ELSE (IF JsLe(credits, CRITICAL_CREDIT_WARNING) /\ JsGt(prev, CRITICAL_CREDIT_WARNING)
          THEN <<sendNotification("error", "alert",
                    [credits |-> credits, threshold |-> CRITICAL_CREDIT_WARNING])>>
          ELSE <<>>)
         \o
         (IF JsLe(credits, LOW_CREDIT_WARNING) /\ JsGt(prev, LOW_CREDIT_WARNING)
          THEN <<sendNotification("warning", "alert",
                    [credits |-> credits, threshold |-> LOW_CREDIT_WARNING])>>
          ELSE <<>>)

\* the notification the tracker sends for an observation, as a list of 0 or 1
CreditAlert(prev, credits) ==
    IF prev = Null THEN <<>>
    ELSE IF JsLe(credits, CRITICAL_CREDIT_WARNING) /\ JsGt(prev, CRITICAL_CREDIT_WARNING)
    THEN <<sendNotification("error", "alert",
              [credits |-> credits, threshold |-> CRITICAL_CREDIT_WARNING])>>
    ELSE IF JsLe(credits, LOW_CREDIT_WARNING) /\ JsGt(prev, LOW_CREDIT_WARNING)
    THEN <<sendNotification("warning", "alert",
              [credits |-> credits, threshold |-> LOW_CREDIT_WARNING])>>
    ELSE <<>>

\* the guard of the tracker: it does nothing without an API key or a balance
TrackerSkips(credits) == ~API_KEY \/ credits = Null

\* checkCreditsAndNotify up to its await: the comparison and the notification; with
\* no alert to send it reaches the store at once
TrackerCheck ==
    /\ pc = "tracker"
    /\ IF TrackerSkips(pending)
       THEN /\ pc' = cont
            /\ UNCHANGED <<lastKnownCredits, log, observations, undelivered>>
       ELSE LET alert == CreditAlert(lastKnownCredits, pending)
            IN  /\ log' = log \o alert
                /\ Deliver(alert)
                /\ observations' =
                      Append(observations, [credits |-> pending, alert |-> alert])
                /\ IF alert = <<>>
                   THEN lastKnownCredits' = pending /\ pc' = cont
                   ELSE UNCHANGED lastKnownCredits /\ pc' = "tracker_store"
    /\ UNCHANGED <<API_KEY, PRIVATE_KEY, flaky, flows, paymentHeader, draws,
                   customAlertThreshold, call, req, response,
                   pending, cont, i, results, foundItems, outcome>>

\* a tracker that leaves without storing when a delivery has failed
TrackerStoreIfDelivered ==
    /\ pc = "tracker_store"
    /\ lastKnownCredits' = IF undelivered > 0 THEN lastKnownCredits ELSE pending
    /\ pc' = cont
    /\ UNCHANGED <<API_KEY, PRIVATE_KEY, flaky, flows, paymentHeader, draws, undelivered,
                   customAlertThreshold, call, req, response,
                   pending, cont, i, results, foundItems, log, observations, outcome>>

\* checkCreditsAndNotify after the await of its notification: the store
TrackerStore ==
    /\ pc = "tracker_store"
    /\ lastKnownCredits' = pending
    /\ pc' = cont
    /\ UNCHANGED <<API_KEY, PRIVATE_KEY, flaky, flows, paymentHeader, draws, undelivered,
                   customAlertThreshold, call, req, response,
                   pending, cont, i, results, foundItems, log, observations, outcome>>

-----------------------------------------------------------------------------
(* Authenticated request executor: fetchWithAuth *)

\* the first fetch of fetchWithAuth: the headers are those of buildHeaders
FetchSend ==
    /\ pc = "fetch"
    /\ log' = Append(log, FetchEvent(req.endpoint, req.body, FALSE))
    /\ pc' = "await1"
    /\ UNCHANGED <<API_KEY, PRIVATE_KEY, flaky, flows, paymentHeader, draws, undelivered,
                   lastKnownCredits, customAlertThreshold, call,
                   req, response, pending, cont, i, results, foundItems, observations,
                   outcome>>

\* an API-key branch that sends the request again after a transport failure
ReceiveApiKeyRetry(status, header, body) ==
    IF status = 0
    THEN /\ pc' = "fetch"
         /\ UNCHANGED <<response, outcome, pending, cont, paymentHeader, draws>>
    ELSE IF ~Ok(status)
    THEN Throw("upstream") /\ UNCHANGED <<pending, cont>>
    ELSE /\ response' = [status |-> status, header |-> header, body |-> body]
         /\ outcome' = outcome
         /\ UNCHANGED <<paymentHeader, draws>>
         /\ IF header # ""
            THEN pending' = parseInt(header) /\ cont' = "fetch_return" /\ pc' = "tracker"
            ELSE pc' = "fetch_return" /\ UNCHANGED <<pending, cont>>

\* an API-key branch that reads the credits header before it tests the response
ReceiveApiKeyHeaderFirst(status, header, body) ==
    IF header # ""
    THEN /\ response' = [status |-> status, header |-> header, body |-> body]
         /\ outcome' = outcome
         /\ UNCHANGED <<paymentHeader, draws>>
         /\ pending' = parseInt(header)
         /\ cont' = IF Ok(status) THEN "fetch_return" ELSE "fetch_throw"
         /\ pc' = "tracker"
    ELSE IF ~Ok(status)
    THEN Throw("upstream") /\ UNCHANGED <<pending, cont>>
    ELSE /\ response' = [status |-> status, header |-> header, body |-> body]
         /\ outcome' = outcome
         /\ pc' = "fetch_return"
         /\ UNCHANGED <<paymentHeader, draws, pending, cont>>

\* the first response, in API-key mode: an error for a response that is not ok,
\* else the credits header, when it is a non-empty text, goes to the tracker
ReceiveApiKey(status, header, body) ==
    IF ~Ok(status)
    THEN Throw("upstream") /\ UNCHANGED <<pending, cont>>
    ELSE /\ response' = [status |-> status, header |-> header, body |-> body]
         /\ outcome' = outcome
         /\ UNCHANGED <<paymentHeader, draws>>
         /\ IF header # ""
            THEN pending' = parseInt(header) /\ cont' = "fetch_return" /\ pc' = "tracker"
            ELSE pc' = "fetch_return" /\ UNCHANGED <<pending, cont>>

\* the first response, in x402 mode: 402 leads to a signed retry, anything else is
\* the result or an error
ReceiveX402(status, header, body, signOk) ==
    /\ UNCHANGED <<pending, cont>>
    /\ IF status = 0 THEN Throw("upstream")
       ELSE IF status # 402
       THEN IF ~Ok(status) THEN Throw("upstream")
            ELSE /\ response' = [status |-> status, header |-> header, body |-> body]
                 /\ outcome' = outcome
                 /\ pc' = "fetch_return"
                 /\ UNCHANGED <<paymentHeader, draws>>
       ELSE IF ~wallet THEN Throw("config")
       ELSE IF ~signOk THEN Throw("payment")
       ELSE /\ response' = NoResponse
            /\ outcome' = outcome
            /\ draws' = draws + 1
            /\ paymentHeader' = createPaymentHeader(draws + 1)
            /\ pc' = "fetch2"

FetchReceive(headers) ==
    /\ pc = "await1"
    /\ \E status \in Statuses, header \in headers, body \in Bodies(req), signOk \in BOOLEAN :
          /\ log' = Append(log, ResponseEvent(status, header, body))
          /\ IF API_KEY
             THEN ReceiveApiKey(status, header, body)
             ELSE ReceiveX402(status, header, body, signOk)
    /\ UNCHANGED <<API_KEY, PRIVATE_KEY, flaky, flows, undelivered,
                   lastKnownCredits, customAlertThreshold, call,
                   req, i, results, foundItems, observations>>

\* the retry that carries the X-PAYMENT header
FetchSendPaid ==
    /\ pc = "fetch2"
    /\ log' = Append(log, FetchEvent(req.endpoint, req.body, TRUE))
    /\ pc' = "await2"
    /\ UNCHANGED <<API_KEY, PRIVATE_KEY, flaky, flows, paymentHeader, draws, undelivered,
                   lastKnownCredits, customAlertThreshold, call,
                   req, response, pending, cont, i, results, foundItems, observations,
                   outcome>>

\* a paid retry that answers another 402 with another retry
FetchReceivePaidRetry ==
    /\ pc = "await2"
    /\ \E status \in Statuses, body \in Bodies(req) :
          /\ log' = Append(log, ResponseEvent(status, "", body))
          /\ IF status = 402
             THEN /\ response' = NoResponse /\ outcome' = outcome /\ pc' = "fetch2"
                  /\ UNCHANGED <<paymentHeader, draws>>
             ELSE IF ~Ok(status) THEN Throw("upstream")
             ELSE /\ response' = [status |-> status, header |-> "", body |-> body]
                  /\ outcome' = outcome
                  /\ paymentHeader' = NoPayment
                  /\ draws' = draws
                  /\ pc' = "fetch_return"
    /\ UNCHANGED <<API_KEY, PRIVATE_KEY, flaky, flows, undelivered,
                   lastKnownCredits, customAlertThreshold, call,
                   req, pending, cont, i, results, foundItems, observations>>

\* the response to the paid retry: the result, or an error; there is no further retry
FetchReceivePaid ==
    /\ pc = "await2"
    /\ \E status \in Statuses, body \in Bodies(req) :
          /\ log' = Append(log, ResponseEvent(status, "", body))
          /\ IF ~Ok(status) THEN Throw("upstream")
             ELSE /\ response' = [status |-> status, header |-> "", body |-> body]
                  /\ outcome' = outcome
                  /\ paymentHeader' = NoPayment
                  /\ draws' = draws
                  /\ pc' = "fetch_return"
    /\ UNCHANGED <<API_KEY, PRIVATE_KEY, flaky, flows, undelivered,
                   lastKnownCredits, customAlertThreshold, call,
                   req, pending, cont, i, results, foundItems, observations>>

-----------------------------------------------------------------------------
(* Batch streaming driver: processBatchWithStreaming *)

\* the items of the streaming call being handled
items == call.addresses

\* a chunk that stops one item early
BatchShort(list, at) == SubSeq(list, at + 1, Min(at + batchSize - 1, Len(list)))

\* the chunk starting at index i: items.slice(i, Math.min(i + batchSize, items.length))
Batch(list, at) == SubSeq(list, at + 1, Min(at + batchSize, Len(list)))

\* a progress event that reports the items done before the chunk
ProgressEventBefore(list, at) ==
    sendNotification("info", "progress",
        [current |-> at,
         total |-> Len(list),
         percentage |-> RoundPercent(at, Len(list))])

\* the progress event sent before the request of the chunk starting at index i
ProgressEvent(list, at) ==
    sendNotification("info", "progress",
        [current |-> at + Len(Batch(list, at)),
         total |-> Len(list),
         percentage |-> RoundPercent(at + Len(Batch(list, at)), Len(list))])

\* the record pushed for one entry of the response's mapping
ItemResult(entry) == [id |-> entry.key, found |-> entry.found]

\* a normalization that keeps the found entries only
ChunkRecordsFoundOnly(entries) ==
    LET F == SelectSeq(entries, LAMBDA e : e.found)
    IN  [k \in 1..Len(F) |-> ItemResult(F[k])]

\* the records of a response, one per entry of its mapping, in the mapping's order
RECURSIVE ChunkRecords(_)
ChunkRecords(entries) ==
    IF entries = <<>> THEN <<>>
    ELSE <<ItemResult(Head(entries))>> \o ChunkRecords(Tail(entries))

\* a driver that sends no "result" event before it goes on
ResultEventsNone(entries) == <<>>

\* a driver that sends a "result" event for every entry, found or not
ResultEventsAll(entries) ==
    [k \in 1..Len(entries) |-> sendNotification("info", "result", ItemResult(entries[k]))]

\* the "result" events of a response: one for every entry that is found
RECURSIVE ResultEvents(_)
ResultEvents(entries) ==
    IF entries = <<>> THEN <<>>
    ELSE (IF Head(entries).found
          THEN <<sendNotification("info", "result", ItemResult(Head(entries)))>>
          ELSE <<>>)
         \o ResultEvents(Tail(entries))

\* the records the callback of batch_get_data_streaming keeps: the found ones
RECURSIVE FoundRecords(_)
FoundRecords(entries) ==
    IF entries = <<>> THEN <<>>
    ELSE (IF Head(entries).found THEN <<ItemResult(Head(entries))>> ELSE <<>>)
         \o FoundRecords(Tail(entries))

\* one iteration of the loop up to its request: the progress event, then postWithAuth
BatchNext ==
    /\ pc = "loop"
    /\ i < Len(items)
    /\ log' = Append(log, ProgressEvent(items, i))
    /\ Deliver(<<ProgressEvent(items, i)>>)
    /\ req' = Request("stream", call.endpoint, Batch(items, i))
    /\ pc' = "fetch"
    /\ UNCHANGED <<API_KEY, PRIVATE_KEY, flaky, flows, paymentHeader, draws,
                   lastKnownCredits, customAlertThreshold, call,
                   response, pending, cont, i, results, foundItems, observations,
                   outcome>>

\* the rest of the iteration, once postWithAuth has returned: the records of the
\* response are appended and the found ones reported, then the index advances
BatchCollect ==
    /\ pc = "fetch_return"
    /\ req.kind = "stream"
    /\ LET entries == IF response.body.present THEN response.body.entries ELSE <<>>
       IN  /\ results' = results \o ChunkRecords(entries)
           /\ log' = log \o ResultEvents(entries)
           /\ Deliver(ResultEvents(entries))
           /\ foundItems' = IF call.name = "batch_get_data_streaming"
                            THEN foundItems \o FoundRecords(entries)
                            ELSE foundItems
    /\ i' = i + batchSize
    /\ pc' = "loop"
    /\ UNCHANGED <<API_KEY, PRIVATE_KEY, flaky, flows, paymentHeader, draws,
                   lastKnownCredits, customAlertThreshold, call,
                   req, response, pending, cont, observations, outcome>>

\* the loop has ended: the streaming handler reports completion and returns
BatchFinish ==
    /\ pc = "loop"
    /\ ~(i < Len(items))
    /\ log' = Append(log, sendNotification("info", "complete", [total |-> Len(results)]))
    /\ Deliver(<<sendNotification("info", "complete", [total |-> Len(results)])>>)
    /\ outcome' = ToolResult("ok",
                     IF call.name = "batch_get_data_streaming" THEN foundItems ELSE results)
    /\ pc' = "done"
    /\ UNCHANGED <<API_KEY, PRIVATE_KEY, flaky, flows, paymentHeader, draws,
                   lastKnownCredits, customAlertThreshold, call,
                   req, response, pending, cont, i, results, foundItems, observations>>

-----------------------------------------------------------------------------
(* The tool-call handler *)

LookupTools ==
    {"check_address", "check_twitter", "get_data_for_address", "get_data_for_twitter"}
BatchTools == {"batch_check", "batch_get_data"}
StreamingTools == {"batch_check_streaming", "batch_get_data_streaming"}
CreditTools == {"check_credits", "set_credit_alert", "purchase_credits"}
ToolNames == LookupTools \cup BatchTools \cup StreamingTools \cup CreditTools
\* names a caller may send: the tools and a name that is none of them
CallNames == ToolNames \cup {"no_such_tool"}

LookupEndpoint(name) ==
    IF name \in {"check_address", "check_twitter"} THEN "/check" ELSE "/data"
BatchEndpoint(name) ==
    IF name \in {"batch_check", "batch_check_streaming"} THEN "/batch/check"
    ELSE "/batch/data"

\* a catalog that lists every tool in every mode
toolsAll == ToolNames

\* the tools the catalog lists: the eight lookup and batch tools, the two credit
\* tools with an API key, purchase_credits with a wallet
tools ==
    LookupTools \cup BatchTools \cup StreamingTools
    \cup (IF API_KEY THEN {"check_credits", "set_credit_alert"} ELSE {})
    \cup (IF wallet THEN {"purchase_credits"} ELSE {})

\* args.addresses && args.addresses.length > 0, and the same for twitters
Given(c, arg) ==
    /\ arg \notin c.absent
    /\ Len(IF arg = "addresses" THEN c.addresses ELSE c.twitters) > 0

\* the list arguments a caller may leave out of a call with these counts: a list
\* that is not given has no items
Absences(na, nt) ==
    SUBSET ((IF na = 0 THEN {"addresses"} ELSE {}) \cup (IF nt = 0 THEN {"twitters"} ELSE {}))

\* with no credentials every tool call returns the configuration message at once
CallNotConfigured ==
    /\ AUTH_MODE = "none"
    /\ \E name \in CallNames, n \in SmallCounts, t \in ThresholdArgs \cup {Null} :
          Accept([NoArgs(name) EXCEPT !.addresses = Items(1, n), !.threshold = t])
    /\ pc' = "done"
    /\ outcome' = [isError |-> TRUE, kind |-> "not_configured", records |-> <<>>,
                   text |-> NotConfiguredText]
    /\ log' = <<>>
    /\ req' = NoRequest
    /\ UNCHANGED <<customAlertThreshold, undelivered>>

\* check_address, check_twitter, get_data_for_address, get_data_for_twitter
CallLookup ==
    /\ AUTH_MODE # "none"
    /\ \E name \in LookupTools :
          /\ Accept(NoArgs(name))
          /\ Start(Request("lookup", LookupEndpoint(name), <<>>), <<>>)

ReturnLookup ==
    /\ pc = "fetch_return"
    /\ req.kind = "lookup"
    /\ outcome' = ToolResult("ok", <<>>)
    /\ pc' = "done"
    /\ UNCHANGED <<API_KEY, PRIVATE_KEY, flaky, flows, paymentHeader, draws, undelivered,
                   lastKnownCredits, customAlertThreshold, call,
                   req, response, pending, cont, i, results, foundItems, log,
                   observations>>

\* the body of batch_check and batch_get_data: each non-empty list as given
BatchBody(c) == c.addresses \o c.twitters

\* batch_check and batch_get_data: one request with both lists
CallBatch ==
    /\ AUTH_MODE # "none"
    /\ \E name \in BatchTools, na \in SmallCounts, nt \in 0..MaxSmall :
       \E ab \in Absences(na, nt) :
          LET c == [NoArgs(name) EXCEPT !.addresses = Items(1, na),
                                        !.twitters = Items(na + 1, nt),
                                        !.absent = ab]
          IN  /\ Accept(c)
              /\ IF ~Given(c, "addresses") /\ ~Given(c, "twitters")
                 THEN Reject("validation")
                 ELSE Start(Request("batch", BatchEndpoint(name), BatchBody(c)), <<>>)

ReturnBatch ==
    /\ pc = "fetch_return"
    /\ req.kind = "batch"
    /\ outcome' = ToolResult("ok", <<>>)
    /\ pc' = "done"
    /\ UNCHANGED <<API_KEY, PRIVATE_KEY, flaky, flows, paymentHeader, draws, undelivered,
                   lastKnownCredits, customAlertThreshold, call,
                   req, response, pending, cont, i, results, foundItems, log,
                   observations>>

\* a streaming handler that announces the run before it looks at the list
CallStreamingNotifyFirst(counts) ==
    /\ AUTH_MODE # "none"
    /\ \E name \in StreamingTools, n \in counts :
       \E ab \in Absences(n, 1) :
          LET c == [name |-> name, addresses |-> Items(1, n), twitters |-> <<>>,
                    threshold |-> Null, package |-> "", absent |-> ab,
                    endpoint |-> BatchEndpoint(name)]
          IN  /\ Accept(c)
              /\ log' = <<sendNotification("info", "start", [total |-> n])>>
              /\ Deliver(<<sendNotification("info", "start", [total |-> n])>>)
              /\ req' = NoRequest
              /\ UNCHANGED customAlertThreshold
              /\ IF ~Given(c, "addresses")
                 THEN pc' = "done" /\ outcome' = ToolCatch("validation")
                 ELSE pc' = "loop" /\ outcome' = NoOutcome

\* batch_check_streaming and batch_get_data_streaming up to the loop
CallStreaming(counts) ==
    /\ AUTH_MODE # "none"
    /\ \E name \in StreamingTools, n \in counts :
       \E ab \in Absences(n, 1) :
          LET c == [name |-> name, addresses |-> Items(1, n), twitters |-> <<>>,
                    threshold |-> Null, package |-> "", absent |-> ab,
                    endpoint |-> BatchEndpoint(name)]
          IN  /\ Accept(c)
              /\ IF ~Given(c, "addresses")
                 THEN Reject("validation")
                 ELSE /\ pc' = "loop"
                      /\ outcome' = NoOutcome
                      /\ log' = <<sendNotification("info", "start", [total |-> n])>>
                      /\ Deliver(<<sendNotification("info", "start", [total |-> n])>>)
                      /\ req' = NoRequest
                      /\ UNCHANGED customAlertThreshold

\* check_credits asking the upstream before it looks at its credential
CallCheckCreditsFetchFirst ==
    /\ AUTH_MODE # "none"
    /\ Accept(NoArgs("check_credits"))
    /\ Start(Request("me", "/api/me", <<>>), <<>>)

\* check_credits up to its request
CallCheckCredits ==
    /\ AUTH_MODE # "none"
    /\ Accept(NoArgs("check_credits"))
    /\ IF ~API_KEY
       THEN Reject("config")
       ELSE Start(Request("me", "/api/me", <<>>), <<>>)

\* result.credits || 0
CreditsOrZero(body) == IF body.credits = Null \/ body.credits = 0 THEN 0 ELSE body.credits

\* check_credits after its request: the balance of the body goes to the tracker
CheckCreditsObserve ==
    /\ pc = "fetch_return"
    /\ req.kind = "me"
    /\ call.name = "check_credits"
    /\ pending' = CreditsOrZero(response.body)
    /\ cont' = "credits_return"
    /\ pc' = "tracker"
    /\ UNCHANGED <<API_KEY, PRIVATE_KEY, flaky, flows, paymentHeader, draws, undelivered,
                   lastKnownCredits, customAlertThreshold, call,
                   req, response, i, results, foundItems, log, observations, outcome>>

\* check_credits formats its answer: the threshold's toLocaleString() throws when
\* the threshold is undefined
ReturnCheckCredits ==
    /\ pc = "credits_return"
    /\ outcome' = IF customAlertThreshold = Null
                  THEN ToolCatch("type_error")
                  ELSE ToolResult("ok", <<>>)
    /\ pc' = "done"
    /\ UNCHANGED <<API_KEY, PRIVATE_KEY, flaky, flows, paymentHeader, draws, undelivered,
                   lastKnownCredits, customAlertThreshold, call,
                   req, response, pending, cont, i, results, foundItems, log,
                   observations>>

\* a set_credit_alert that tests the stored balance against the new threshold
CallSetCreditAlertReevaluate(thresholds) ==
    /\ AUTH_MODE # "none"
    /\ \E t \in thresholds :
          /\ Accept([NoArgs("set_credit_alert") EXCEPT !.threshold = t])
          /\ IF ~API_KEY
             THEN Reject("config")
             ELSE LET notes ==
                          <<sendNotification("info", "threshold", [threshold |-> t])>>
                          \o (IF lastKnownCredits # Null /\ JsLe(lastKnownCredits, t)
                              THEN <<sendNotification("warning", "alert",
                                        [credits |-> lastKnownCredits, threshold |-> t])>>
                              ELSE <<>>)
                  IN  /\ customAlertThreshold' = t
                      /\ log' = notes
                      /\ Deliver(notes)
                      /\ outcome' = ToolResult("ok", <<>>)
                      /\ pc' = "done"
                      /\ req' = NoRequest

\* set_credit_alert: the argument is written as the threshold, whatever it is, and
\* confirmed with an info message; formatting the message throws when the
\* argument is missing, after the write
CallSetCreditAlert(thresholds) ==
    /\ AUTH_MODE # "none"
    /\ \E t \in thresholds :
          /\ Accept([NoArgs("set_credit_alert") EXCEPT !.threshold = t])
          /\ IF ~API_KEY
             THEN Reject("config")
             ELSE IF t = Null
             THEN /\ customAlertThreshold' = t
                  /\ log' = <<>>
                  /\ Deliver(<<>>)
                  /\ outcome' = ToolCatch("type_error")
                  /\ pc' = "done"
                  /\ req' = NoRequest
             ELSE /\ customAlertThreshold' = t
                  /\ log' = <<sendNotification("info", "threshold", [threshold |-> t])>>
                  /\ Deliver(<<sendNotification("info", "threshold", [threshold |-> t])>>)
                  /\ outcome' = ToolResult("ok", <<>>)
                  /\ pc' = "done"
                  /\ req' = NoRequest

\* the packages purchase_credits knows
Packages == {"starter", "pro", "enterprise"}

PurchaseEndpoint == "/api/credits/purchase"

\* purchase_credits up to its first request
CallPurchaseCredits ==
    /\ AUTH_MODE # "none"
    /\ \E p \in PackageArgs :
          /\ Accept([NoArgs("purchase_credits") EXCEPT !.package = p])
          /\ IF ~wallet THEN Reject("config")
             ELSE IF p \notin Packages THEN Reject("validation")
             ELSE /\ pc' = "purchase1"
                  /\ outcome' = NoOutcome
                  /\ log' = <<sendNotification("info", "purchasing", [package |-> p])>>
                  /\ Deliver(<<sendNotification("info", "purchasing", [package |-> p])>>)
                  /\ req' = Request("purchase", PurchaseEndpoint, <<>>)
                  /\ UNCHANGED customAlertThreshold

\* the first request of purchase_credits, without a payment header
PurchaseSend ==
    /\ pc = "purchase1"
    /\ log' = Append(log, RawFetchEvent(req.endpoint, FALSE))
    /\ pc' = "purchase_await1"
    /\ UNCHANGED <<API_KEY, PRIVATE_KEY, flaky, flows, paymentHeader, draws, undelivered,
                   lastKnownCredits, customAlertThreshold, call,
                   req, response, pending, cont, i, results, foundItems, observations,
                   outcome>>

\* a purchase that signs and pays whatever the first response is
PurchaseReceiveAlwaysPay ==
    /\ pc = "purchase_await1"
    /\ \E status \in Statuses, signOk \in BOOLEAN :
          /\ log' = Append(log, ResponseEvent(status, "", [none |-> TRUE]))
          /\ IF ~signOk THEN Throw("payment")
             ELSE /\ response' = NoResponse
                  /\ outcome' = outcome
                  /\ draws' = draws + 1
                  /\ paymentHeader' = createPaymentHeader(draws + 1)
                  /\ pc' = "purchase2"
    /\ UNCHANGED <<API_KEY, PRIVATE_KEY, flaky, flows, undelivered,
                   lastKnownCredits, customAlertThreshold, call,
                   req, pending, cont, i, results, foundItems, observations>>

\* anything but 402 is an error here; a 402 is answered with a signed header
PurchaseReceive ==
    /\ pc = "purchase_await1"
    /\ \E status \in Statuses, signOk \in BOOLEAN :
          /\ log' = Append(log, ResponseEvent(status, "", [none |-> TRUE]))
          /\ IF status # 402 THEN Throw("upstream")
             ELSE IF ~signOk THEN Throw("payment")
             ELSE /\ response' = NoResponse
                  /\ outcome' = outcome
                  /\ draws' = draws + 1
                  /\ paymentHeader' = createPaymentHeader(draws + 1)
                  /\ pc' = "purchase2"
    /\ UNCHANGED <<API_KEY, PRIVATE_KEY, flaky, flows, undelivered,
                   lastKnownCredits, customAlertThreshold, call,
                   req, pending, cont, i, results, foundItems, observations>>

\* the second request of purchase_credits, with the X-PAYMENT header
PurchaseSendPaid ==
    /\ pc = "purchase2"
    /\ log' = Append(log, RawFetchEvent(req.endpoint, TRUE))
    /\ pc' = "purchase_await2"
    /\ UNCHANGED <<API_KEY, PRIVATE_KEY, flaky, flows, paymentHeader, draws, undelivered,
                   lastKnownCredits, customAlertThreshold, call,
                   req, response, pending, cont, i, results, foundItems, observations,
                   outcome>>

PurchaseReceivePaid ==
    /\ pc = "purchase_await2"
    /\ \E status \in Statuses :
          IF ~Ok(status)
          THEN /\ Throw("payment")
               /\ log' = Append(log, ResponseEvent(status, "", [none |-> TRUE]))
               /\ UNCHANGED undelivered
          ELSE /\ response' = NoResponse
               /\ paymentHeader' = NoPayment
               /\ draws' = draws
               /\ log' = log \o <<ResponseEvent(status, "", [none |-> TRUE]),
                                  sendNotification("info", "purchased", [ok |-> TRUE])>>
               /\ Deliver(<<sendNotification("info", "purchased", [ok |-> TRUE])>>)
               /\ outcome' = ToolResult("ok", <<>>)
               /\ pc' = "done"
    /\ UNCHANGED <<API_KEY, PRIVATE_KEY, flaky, flows, lastKnownCredits, customAlertThreshold, call,
                   req, pending, cont, i, results, foundItems, observations>>

\* a name that is no tool: the default branch of the switch throws
CallUnknown ==
    /\ AUTH_MODE # "none"
    /\ Accept(NoArgs("no_such_tool"))
    /\ Reject("unknown_tool")

-----------------------------------------------------------------------------
(* main: the startup balance query *)

\* in API-key mode main asks /api/me for the balance; otherwise it is done
MainQuery ==
    /\ pc = "main"
    /\ IF API_KEY
       THEN /\ pc' = "fetch"
            /\ req' = Request("me", "/api/me", <<>>)
       ELSE /\ pc' = "idle"
            /\ req' = NoRequest
    /\ UNCHANGED <<API_KEY, PRIVATE_KEY, flaky, flows, paymentHeader, draws, undelivered,
                   lastKnownCredits, customAlertThreshold, call,
                   response, pending, cont, i, results, foundItems, log, observations,
                   outcome>>

\* main stores the balance of the body itself
MainStore ==
    /\ pc = "fetch_return"
    /\ req.kind = "me"
    /\ call.name = "main"
    /\ lastKnownCredits' = CreditsOrZero(response.body)
    /\ pc' = "idle"
    /\ UNCHANGED <<API_KEY, PRIVATE_KEY, flaky, flows, paymentHeader, draws, undelivered,
                   customAlertThreshold, call, req, response,
                   pending, cont, i, results, foundItems, log, observations, outcome>>

-----------------------------------------------------------------------------
(* The specifications *)

\* the state of a started process: the module is loaded, the server is connected
\* and main is about to make its startup query
Init ==
    /\ API_KEY \in BOOLEAN
    /\ PRIVATE_KEY \in BOOLEAN
    /\ lastKnownCredits = Null
    /\ customAlertThreshold = LOW_CREDIT_WARNING
    /\ pc = "main"
    /\ call = NoArgs("main")
    /\ req = NoRequest
    /\ response = NoResponse
    /\ pending = Null
    /\ cont = "none"
    /\ i = 0
    /\ results = <<>>
    /\ foundItems = <<>>
    /\ log = <<>>
    /\ observations = <<>>
    /\ outcome = NoOutcome
    /\ paymentHeader = NoPayment
    /\ draws = 0
    /\ flaky = FALSE
    /\ undelivered = 0
    /\ flows = <<>>

Next ==
    \/ MainQuery
    \/ MainStore
    \/ CallNotConfigured
    \/ CallLookup
    \/ ReturnLookup
    \/ CallBatch
    \/ ReturnBatch
    \/ CallStreaming(SmallCounts)
    \/ BatchNext
    \/ BatchCollect
    \/ BatchFinish
    \/ CallCheckCredits
    \/ CheckCreditsObserve
    \/ ReturnCheckCredits
    \/ CallSetCreditAlert(ThresholdArgs)
    \/ CallPurchaseCredits
    \/ PurchaseSend
    \/ PurchaseReceive
    \/ PurchaseSendPaid
    \/ PurchaseReceivePaid
    \/ CallUnknown
    \/ FetchSend
    \/ FetchReceive(CreditsHeaders)
    \/ FetchSendPaid
    \/ FetchReceivePaid
    \/ TrackerCheck
    \/ TrackerStore
    \/ Respond

Spec == Init /\ [][Next]_vars

\* the steps the server takes by itself once a request, a response or a delivery
\* it awaits has resolved: all but the arrival of a tool call
Resume ==
    \/ MainQuery
    \/ MainStore
    \/ ReturnLookup
    \/ ReturnBatch
    \/ BatchNext
    \/ BatchCollect
    \/ BatchFinish
    \/ CheckCreditsObserve
    \/ ReturnCheckCredits
    \/ PurchaseSend
    \/ PurchaseReceive
    \/ PurchaseSendPaid
    \/ PurchaseReceivePaid
    \/ FetchSend
    \/ FetchReceive(CreditsHeaders)
    \/ FetchSendPaid
    \/ FetchReceivePaid
    \/ TrackerCheck
    \/ TrackerStore
    \/ Respond

\* the server when every request it sends and every delivery it awaits resolves:
\* the single continuation of the invocation is then run
SpecLive == Init /\ [][Next]_vars /\ WF_vars(Resume)

-----------------------------------------------------------------------------
(* Requests in flight side by side *)

\* the requests a client keeps in flight side by side
MaxFlows == 2

\* the startup query of main
MainFlow == 0

\* a request that has not been sent yet
NewFlow == [pc |-> "start", credits |-> Null, body |-> [credits |-> Null],
            alert |-> <<>>, seq |-> 0, stored |-> FALSE]

\* the responses received so far
Received == Cardinality({g \in DOMAIN flows : flows[g].seq > 0})

\* where a flow goes on once fetchWithAuth is through: main has its own store to
\* make, a tool returns
AfterFetch(f) == IF f = MainFlow THEN "main_store" ELSE "done"

\* fetchWithAuth sends the request of flow f and awaits the response
FlowSend ==
    /\ \E f \in DOMAIN flows :
          /\ flows[f].pc = "start"
          /\ flows' = [flows EXCEPT ![f].pc = "await"]
    /\ UNCHANGED <<API_KEY, PRIVATE_KEY, flaky, lastKnownCredits, customAlertThreshold,
                   pc, call, req, response, pending, cont, i, results, foundItems, log,
                   observations, outcome, paymentHeader, draws, undelivered>>

\* the response of flow f arrives: fetchWithAuth throws when it is not ok, else
\* it reads the credits header and runs checkCreditsAndNotify up to its first
\* await, which is the delivery of an alert; with no alert the store is reached
\* at once
FlowReceive(headers) ==
    /\ \E f \in DOMAIN flows, status \in {200, 500}, header \in headers,
          body \in Bodies(Request("me", "/api/me", <<>>)) :
          /\ flows[f].pc = "await"
          /\ IF ~Ok(status)
             THEN /\ flows' = [flows EXCEPT ![f].pc = "done"]
                  /\ UNCHANGED <<lastKnownCredits, log, observations>>
             ELSE LET credits == IF header = "" THEN Null ELSE parseInt(header)
                      alert == IF TrackerSkips(credits) THEN <<>>
                               ELSE CreditAlert(lastKnownCredits, credits)
                      got == [flows[f] EXCEPT
                                !.seq = Received + 1,
                                !.credits = credits,
                                !.body = IF f = MainFlow THEN body ELSE @,
                                !.alert = alert]
                  IN  /\ log' = log \o alert
                      /\ IF TrackerSkips(credits)
                         THEN /\ flows' = [flows EXCEPT ![f] =
                                              [got EXCEPT !.pc = AfterFetch(f)]]
                              /\ UNCHANGED <<lastKnownCredits, observations>>
                         ELSE IF alert = <<>>
                         THEN /\ flows' = [flows EXCEPT ![f] =
                                              [got EXCEPT !.pc = AfterFetch(f),
                                                          !.stored = TRUE]]
                              /\ lastKnownCredits' = credits
                              /\ observations' = Append(observations,
                                     [credits |-> credits, alert |-> alert])
                         ELSE /\ flows' = [flows EXCEPT ![f] =
                                              [got EXCEPT !.pc = "notify"]]
                              /\ UNCHANGED <<lastKnownCredits, observations>>
    /\ UNCHANGED <<API_KEY, PRIVATE_KEY, flaky, customAlertThreshold,
                   pc, call, req, response, pending, cont, i, results, foundItems,
                   outcome, paymentHeader, draws, undelivered>>

\* the delivery of the alert of flow f is over: checkCreditsAndNotify stores the
\* balance it was called with
FlowStore ==
    /\ \E f \in DOMAIN flows :
          /\ flows[f].pc = "notify"
          /\ lastKnownCredits' = flows[f].credits
          /\ flows' = [flows EXCEPT ![f].pc = AfterFetch(f), ![f].stored = TRUE]
          /\ observations' = Append(observations,
                 [credits |-> flows[f].credits, alert |-> flows[f].alert])
    /\ UNCHANGED <<API_KEY, PRIVATE_KEY, flaky, customAlertThreshold,
                   pc, call, req, response, pending, cont, i, results, foundItems, log,
                   outcome, paymentHeader, draws, undelivered>>

\* main has the body of its query: it stores the balance of the body itself
FlowMainStore ==
    /\ MainFlow \in DOMAIN flows
    /\ flows[MainFlow].pc = "main_store"
    /\ lastKnownCredits' = CreditsOrZero(flows[MainFlow].body)
    /\ flows' = [flows EXCEPT ![MainFlow].pc = "done", ![MainFlow].stored = TRUE]
    /\ observations' = Append(observations,
           [credits |-> CreditsOrZero(flows[MainFlow].body), alert |-> <<>>])
    /\ UNCHANGED <<API_KEY, PRIVATE_KEY, flaky, customAlertThreshold,
                   pc, call, req, response, pending, cont, i, results, foundItems, log,
                   outcome, paymentHeader, draws, undelivered>>

\* the sequential part of the server at rest, with an API key
AtRest ==
    /\ API_KEY = TRUE
    /\ PRIVATE_KEY \in BOOLEAN
    /\ customAlertThreshold = LOW_CREDIT_WARNING
    /\ pc = "idle"
    /\ call = NoArgs("main")
    /\ req = NoRequest
    /\ response = NoResponse
    /\ pending = Null
    /\ cont = "none"
    /\ i = 0
    /\ results = <<>>
    /\ foundItems = <<>>
    /\ log = <<>>
    /\ observations = <<>>
    /\ outcome = NoOutcome
    /\ paymentHeader = NoPayment
    /\ draws = 0
    /\ flaky = FALSE

\* Tool requests side by side, after a startup query that stored a balance of 1500
InitOverlap ==
    /\ AtRest
    /\ undelivered = 0
    /\ lastKnownCredits = 1500
    /\ flows = [f \in 1..MaxFlows |-> NewFlow]

NextOverlap ==
    \/ FlowSend
    \/ FlowReceive(NotifyHeaders)
    \/ FlowStore

SpecOverlap == InitOverlap /\ [][NextOverlap]_vars

\* The startup query of main side by side with tool requests: the server is
\* connected before main asks for the balance
InitStartup ==
    /\ AtRest
    /\ undelivered = 0
    /\ lastKnownCredits = Null
    /\ flows = [f \in MainFlow..MaxFlows |-> NewFlow]

NextStartup ==
    \/ FlowSend
    \/ FlowReceive(NotifyHeaders \cup {"1500"})
    \/ FlowStore
    \/ FlowMainStore

SpecStartup == InitStartup /\ [][NextStartup]_vars

\* The credit tools of a started server, with a client that sends any threshold
\* argument: main is over, with the balance stored or not
InitThreshold ==
    /\ API_KEY \in BOOLEAN
    /\ PRIVATE_KEY \in BOOLEAN
    /\ API_KEY \/ PRIVATE_KEY
    /\ lastKnownCredits \in (IF API_KEY THEN {Null, 1500} ELSE {Null})
    /\ customAlertThreshold = LOW_CREDIT_WARNING
    /\ pc = "idle"
    /\ call = NoArgs("main")
    /\ req = NoRequest
    /\ response = NoResponse
    /\ pending = Null
    /\ cont = "none"
    /\ i = 0
    /\ results = <<>>
    /\ foundItems = <<>>
    /\ log = <<>>
    /\ observations = <<>>
    /\ outcome = NoOutcome
    /\ paymentHeader = NoPayment
    /\ draws = 0
    /\ flaky = FALSE
    /\ undelivered = 0
    /\ flows = <<>>

NextThreshold ==
    \/ CallSetCreditAlert(ThresholdInputs)
    \/ CallCheckCredits
    \/ CheckCreditsObserve
    \/ ReturnCheckCredits
    \/ FetchSend
    \/ FetchReceive(NotifyHeaders)
    \/ TrackerCheck
    \/ TrackerStore
    \/ Respond

SpecThreshold == InitThreshold /\ [][NextThreshold]_vars

\* The tools that send notifications, with a host whose notification channel can
\* reject any message: the process has credentials and its startup is over; in
\* API-key mode the startup query has stored the balance 1500
InitNotify ==
    /\ API_KEY \in BOOLEAN
    /\ PRIVATE_KEY \in BOOLEAN
    /\ API_KEY \/ PRIVATE_KEY
    /\ lastKnownCredits = IF API_KEY THEN 1500 ELSE Null
    /\ customAlertThreshold = LOW_CREDIT_WARNING
    /\ pc = "idle"
    /\ call = NoArgs("main")
    /\ req = NoRequest
    /\ response = NoResponse
    /\ pending = Null
    /\ cont = "none"
    /\ i = 0
    /\ results = <<>>
    /\ foundItems = <<>>
    /\ log = <<>>
    /\ observations = <<>>
    /\ outcome = NoOutcome
    /\ paymentHeader = NoPayment
    /\ draws = 0
    /\ flaky = TRUE
    /\ undelivered = 0
    /\ flows = <<>>

NextNotify ==
    \/ CallLookup
    \/ ReturnLookup
    \/ CallStreaming(SmallCounts)
    \/ BatchNext
    \/ BatchCollect
    \/ BatchFinish
    \/ CallSetCreditAlert(ThresholdArgs)
    \/ CallPurchaseCredits
    \/ PurchaseSend
    \/ PurchaseReceive
    \/ PurchaseSendPaid
    \/ PurchaseReceivePaid
    \/ FetchSend
    \/ FetchReceive(NotifyHeaders)
    \/ FetchSendPaid
    \/ FetchReceivePaid
    \/ TrackerCheck
    \/ TrackerStore
    \/ Respond

SpecNotify == InitNotify /\ [][NextNotify]_vars

\* The streaming driver on lists of every length in BatchCounts: the process has
\* credentials, its startup is over with no balance known, and the upstream sends
\* no credits header
InitBatch ==
    /\ API_KEY \in BOOLEAN
    /\ PRIVATE_KEY \in BOOLEAN
    /\ API_KEY \/ PRIVATE_KEY
    /\ lastKnownCredits = Null
    /\ customAlertThreshold = LOW_CREDIT_WARNING
    /\ pc = "idle"
    /\ call = NoArgs("main")
    /\ req = NoRequest
    /\ response = NoResponse
    /\ pending = Null
    /\ cont = "none"
    /\ i = 0
    /\ results = <<>>
    /\ foundItems = <<>>
    /\ log = <<>>
    /\ observations = <<>>
    /\ outcome = NoOutcome
    /\ paymentHeader = NoPayment
    /\ draws = 0
    /\ flaky = FALSE
    /\ undelivered = 0
    /\ flows = <<>>

NextBatch ==
    \/ CallStreaming(BatchCounts)
    \/ BatchNext
    \/ BatchCollect
    \/ BatchFinish
    \/ FetchSend
    \/ FetchReceive({""})
    \/ FetchSendPaid
    \/ FetchReceivePaid
    \/ Respond

SpecBatch == InitBatch /\ [][NextBatch]_vars

\* The tracker on every sequence of at most MaxObs balances, in API-key mode, from
\* the state in which no balance is known
InitTracker ==
    /\ API_KEY = TRUE
    /\ PRIVATE_KEY \in BOOLEAN
    /\ lastKnownCredits = Null
    /\ customAlertThreshold = LOW_CREDIT_WARNING
    /\ pc = "idle"
    /\ call = NoArgs("main")
    /\ req = NoRequest
    /\ response = NoResponse
    /\ pending = Null
    /\ cont = "none"
    /\ i = 0
    /\ results = <<>>
    /\ foundItems = <<>>
    /\ log = <<>>
    /\ observations = <<>>
    /\ outcome = NoOutcome
    /\ paymentHeader = NoPayment
    /\ draws = 0
    /\ flaky = FALSE
    /\ undelivered = 0
    /\ flows = <<>>

\* a caller hands a balance to checkCreditsAndNotify
Observe ==
    /\ pc = "idle"
    /\ Len(observations) < MaxObs
    /\ \E credits \in Credits \cup {NaN, Null} :
          pending' = credits
    /\ cont' = "idle"
    /\ pc' = "tracker"
    /\ UNCHANGED <<API_KEY, PRIVATE_KEY, flaky, flows, paymentHeader, draws, undelivered,
                   lastKnownCredits, customAlertThreshold, call,
                   req, response, i, results, foundItems, log, observations, outcome>>

NextTracker ==
    \/ Observe
    \/ TrackerCheck
    \/ TrackerStore

SpecTracker == InitTracker /\ [][NextTracker]_vars

-----------------------------------------------------------------------------
(* Properties of the tracker *)

\* a balance that is a number
Known(b) == b # Null /\ b # NaN

\* the balance went from above the threshold to at or below it
Crossing(prev, new, threshold) ==
    Known(prev) /\ Known(new) /\ prev > threshold /\ new <= threshold

\* the balance stored when observation k of a tracker run was made (SpecTracker
\* starts with no balance known)
ObsPrev(k) == IF k = 1 THEN Null ELSE observations[k - 1].credits

\* observation k emitted an alert of this level for this threshold
AlertAt(k, level, threshold) ==
    \E a \in 1..Len(observations[k].alert) :
        /\ observations[k].alert[a].level = level
        /\ observations[k].alert[a].data.threshold = threshold

ObservedCredits == [k \in 1..Len(observations) |-> observations[k].credits]

\* C1 as stated: on every observation and for both thresholds, an alert for the
\* threshold is emitted exactly when the stored balance is known and above the
\* threshold and the new balance is at or below it.
C1_AlertExactlyOnCrossing ==
    \A k \in 1..Len(observations) :
        /\ AlertAt(k, "error", CRITICAL_CREDIT_WARNING)
              <=> Crossing(ObsPrev(k), observations[k].credits, CRITICAL_CREDIT_WARNING)
        /\ AlertAt(k, "warning", LOW_CREDIT_WARNING)
              <=> Crossing(ObsPrev(k), observations[k].credits, LOW_CREDIT_WARNING)

\* C1 amended: the critical alert is emitted exactly on a crossing of the critical
\* threshold, the low alert exactly on a crossing of the low threshold that is not
\* also a crossing of the critical one; the alerts sent are those of the
\* observations, in order; and the balances 1500, 900, 900, 50 after an unknown
\* balance give exactly a warning at 1500 -> 900 and an error at 900 -> 50.
C1_AlertOnCrossingCriticalFirst ==
    /\ \A k \in 1..Len(observations) :
          /\ AlertAt(k, "error", CRITICAL_CREDIT_WARNING)
                <=> Crossing(ObsPrev(k), observations[k].credits, CRITICAL_CREDIT_WARNING)
          /\ AlertAt(k, "warning", LOW_CREDIT_WARNING)
                <=> /\ Crossing(ObsPrev(k), observations[k].credits, LOW_CREDIT_WARNING)
                    /\ ~Crossing(ObsPrev(k), observations[k].credits,
                                 CRITICAL_CREDIT_WARNING)
          /\ ~AlertAt(k, "warning", CRITICAL_CREDIT_WARNING)
          /\ ~AlertAt(k, "error", LOW_CREDIT_WARNING)
    /\ log = Flatten([k \in 1..Len(observations) |-> observations[k].alert])
    /\ ObservedCredits = <<1500, 900, 900, 50>> =>
          log = <<sendNotification("warning", "alert",
                      [credits |-> 900, threshold |-> 1000]),
                  sendNotification("error", "alert",
                      [credits |-> 50, threshold |-> 100])>>

\* the tracker has seen 1500, 900, 900, 50 and has sent two alerts
C1_Witness ==
    /\ pc = "idle"
    /\ ObservedCredits = <<1500, 900, 900, 50>>
    /\ Len(log) = 2
    /\ lastKnownCredits = 50

\* C2: once set_credit_alert has set the threshold to T, the low-credit warning is
\* decided by T: between two observations of an invocation, a crossing of T that is
\* not a critical crossing emits one warning carrying T, and a warning is emitted
\* only on a crossing of T.
C2_WarningFollowsCustomThreshold ==
    customAlertThreshold # LOW_CREDIT_WARNING =>
        \A k \in 2..Len(observations) :
            LET prev == observations[k - 1].credits
                new == observations[k].credits
            IN  /\ (/\ Crossing(prev, new, customAlertThreshold)
                    /\ ~Crossing(prev, new, CRITICAL_CREDIT_WARNING))
                      => observations[k].alert =
                            <<sendNotification("warning", "alert",
                                [credits |-> new, threshold |-> customAlertThreshold])>>
                /\ (\E T \in {LOW_CREDIT_WARNING, customAlertThreshold} :
                        AlertAt(k, "warning", T))
                      => Crossing(prev, new, customAlertThreshold)

\* C8: an observation emits at most one alert; one that crosses both thresholds
\* emits the critical alert alone; and after it no warning is emitted as long as
\* the balance stays at or below the low threshold.
C8_CriticalSuppressesLow ==
    \A k \in 1..Len(observations) :
        LET double == /\ Crossing(ObsPrev(k), observations[k].credits,
                                  CRITICAL_CREDIT_WARNING)
                      /\ Crossing(ObsPrev(k), observations[k].credits,
                                  LOW_CREDIT_WARNING)
        IN  /\ Len(observations[k].alert) <= 1
            /\ Len(SelectSeq(log, IsAlert)) <= Len(observations)
            /\ double =>
                  observations[k].alert =
                      <<sendNotification("error", "alert",
                          [credits |-> observations[k].credits,
                           threshold |-> CRITICAL_CREDIT_WARNING])>>
            /\ double =>
                  \A m \in k..Len(observations) :
                      (\A j \in k..m : /\ Known(observations[j].credits)
                                       /\ observations[j].credits <= LOW_CREDIT_WARNING)
                          => ~AlertAt(m, "warning", LOW_CREDIT_WARNING)

\* the balance fell from 1500 to 50 in one observation and then rose to 900
C8_Witness ==
    /\ pc = "idle"
    /\ ObservedCredits = <<1500, 50, 900>>
    /\ Len(log) = 1
    /\ log[1].level = "error"

-----------------------------------------------------------------------------
(* Properties of the request executor and of the authentication selector *)

Fetches == SelectSeq(log, IsFetch)
Responses == SelectSeq(log, IsResponse)

\* the invocation makes one fetchWithAuth execution, in x402 mode
OneFetchInX402 == ~API_KEY /\ PRIVATE_KEY /\ req.kind \in {"lookup", "batch"}

\* C3: in x402 mode one fetchWithAuth execution makes at most two network calls, the
\* second one only as the paid retry of a first response 402.  When it has ended:
\* 402 then success is 2 calls and a result; 402 then a response that is not 2xx is
\* 2 calls and an error; a first response other than 402 is 1 call.
C3_PaymentRetryBound ==
    OneFetchInX402 =>
        /\ Len(Fetches) <= 2
        /\ Len(Fetches) >= 1 => ~Fetches[1].payment
        /\ Len(Fetches) = 2 => Fetches[2].payment /\ Responses[1].status = 402
        /\ pc = "done" =>
              /\ Len(Responses) = Len(Fetches)
              /\ (Responses[1].status = 402 /\ Len(Responses) = 2
                                            /\ Ok(Responses[2].status))
                    => Len(Fetches) = 2 /\ ~outcome.isError
              /\ (Responses[1].status = 402 /\ Len(Responses) = 2
                                            /\ ~Ok(Responses[2].status))
                    => Len(Fetches) = 2 /\ outcome.isError
              /\ Responses[1].status # 402 => Len(Fetches) = 1

\* a lookup in x402 mode was answered 402 twice and has ended in an error
C3_Witness ==
    /\ OneFetchInX402
    /\ pc = "done"
    /\ outcome.isError
    /\ [k \in 1..Len(Responses) |-> Responses[k].status] = <<402, 402>>
    /\ Len(Fetches) = 2

IsBatchEndpoint(e) == e.endpoint \in {"/batch/check", "/batch/data"}

\* C5: every request to /batch/check or /batch/data carries at most 50 items,
\* whichever batch tool sends it.
C5_BatchRequestAtMostFifty ==
    \A k \in 1..Len(log) :
        (IsFetch(log[k]) /\ IsBatchEndpoint(log[k])) => Len(log[k].body) <= batchSize

\* C6: with neither credential set, a tool invocation makes no network call and
\* sends no notification, and what it returns is the error result with the
\* configuration message.
C6_NotConfiguredFailsFast ==
    (~API_KEY /\ ~PRIVATE_KEY) =>
        /\ log = <<>>
        /\ pc \in {"main", "idle", "done"}
        /\ pc = "done" => outcome.isError /\ outcome.kind = "not_configured"

\* a streaming batch was asked for with no credentials and has been answered
C6_Witness ==
    /\ ~API_KEY /\ ~PRIVATE_KEY
    /\ pc = "done"
    /\ call.name = "batch_check_streaming"
    /\ Len(call.addresses) > 0
    /\ outcome.isError

\* C7: with both credentials set the mode is API key: there is no wallet, every
\* request carries the API-key header and none a payment header, and the control
\* flow never reaches the signed retry or the purchase.
C7_ApiKeyHasPriority ==
    (API_KEY /\ PRIVATE_KEY) =>
        /\ AUTH_MODE = "api-key"
        /\ ~wallet
        /\ \A k \in 1..Len(log) : IsFetch(log[k]) => log[k].apiKey /\ ~log[k].payment
        /\ pc \notin {"fetch2", "await2", "purchase1", "purchase_await1", "purchase2",
                      "purchase_await2"}

\* with both credentials set a request was answered 402 and the call has failed
C7_Witness ==
    /\ API_KEY /\ PRIVATE_KEY
    /\ pc = "done"
    /\ outcome.isError
    /\ Len(Fetches) = 1
    /\ Len(Responses) = 1 /\ Responses[1].status = 402

-----------------------------------------------------------------------------
(* Properties of the batch streaming driver *)

Streaming == call.name \in StreamingTools

\* the requests of the run that are not paid retries, one per postWithAuth
ChunkRequests == SelectSeq(log, IsUnpaidFetch)

\* C4: a streaming run over n >= 1 items whose requests all succeed has issued
\* ceil(n/50) requests; their bodies are 50 items long except possibly the last,
\* and concatenated they are the input list; for n = 120 the sizes are 50, 50, 20.
C4_Chunking ==
    (Streaming /\ pc = "done" /\ ~outcome.isError) =>
        LET n == Len(call.addresses)
            c == Len(ChunkRequests)
            sizes == [k \in 1..c |-> Len(ChunkRequests[k].body)]
        IN  /\ n >= 1
            /\ c * 50 >= n /\ (c - 1) * 50 < n
            /\ \A k \in 1..(c - 1) : sizes[k] = 50
            /\ sizes[c] >= 1 /\ sizes[c] <= 50
            /\ Flatten([k \in 1..c |-> ChunkRequests[k].body]) = call.addresses
            /\ n = 120 => sizes = <<50, 50, 20>>

\* a run over 120 items has ended well after three requests
C4_Witness ==
    /\ Streaming /\ pc = "done" /\ ~outcome.isError
    /\ Len(call.addresses) = 120
    /\ Len(ChunkRequests) = 3

\* the response at position k of the log is a failure of its request: it is not
\* 2xx, and it is not the 402 that x402 mode answers with a paid retry
FailedResponse(k) ==
    /\ IsResponse(log[k])
    /\ ~Ok(log[k].status)
    /\ log[k].status # 402 \/ API_KEY \/ log[k - 1].payment

\* C9: when the request of a chunk fails, the run is over: the failure is the last
\* thing the invocation did, the handler has returned an error result that holds
\* no record, and no chunk is requested twice.
C9_FailedChunkAborts ==
    Streaming =>
        /\ \A k \in 1..Len(log) :
              FailedResponse(k) =>
                  /\ k = Len(log)
                  /\ pc = "done"
                  /\ outcome.isError
                  /\ outcome.records = <<>>
        /\ (pc = "done" /\ outcome.isError) => outcome.records = <<>>
        /\ \A a, b \in 1..Len(ChunkRequests) :
              a # b => ChunkRequests[a].body # ChunkRequests[b].body
        /\ Len(SelectSeq(log, IsPaidFetch)) <= Len(ChunkRequests)

\* the second chunk of a run over 120 items failed after the first had given records
C9_Witness ==
    /\ Streaming /\ pc = "done" /\ outcome.isError
    /\ Len(call.addresses) = 120
    /\ Len(ChunkRequests) = 2
    /\ Len(results) > 0
    /\ FailedResponse(Len(log))

\* C10: chunk k has one progress event, sent before the request of chunk k and
\* after the request of chunk k-1; it carries current = min(50k, n), total = n and
\* percentage = current/total*100 rounded to the nearest integer; for n = 120 the
\* percentages are 42, 83, 100.
C10_ProgressBeforeRequest ==
    Streaming =>
        LET n == Len(call.addresses)
            P == Indices(log, IsProgress)
            F == Indices(log, IsUnpaidFetch)
        IN  /\ Len(F) <= Len(P) /\ Len(P) <= Len(F) + 1
            /\ \A k \in 1..Len(F) :
                  /\ P[k] < F[k]
                  /\ k > 1 => F[k - 1] < P[k]
            /\ \A k \in 1..Len(P) :
                  LET d == log[P[k]].data
                  IN  /\ d.current = Min(50 * k, n)
                      /\ d.total = n
                      /\ 2 * (100 * d.current - d.percentage * n) < n
                      /\ 2 * (100 * d.current - d.percentage * n) >= -n
            /\ (pc = "done" /\ ~outcome.isError) =>
                  /\ Len(P) = Len(F)
                  /\ Len(P) * 50 >= n /\ (Len(P) - 1) * 50 < n
                  /\ n = 120 =>
                        [k \in 1..Len(P) |-> log[P[k]].data.percentage] = <<42, 83, 100>>

\* a run over 120 items has ended well and has sent three progress events
C10_Witness ==
    /\ Streaming /\ pc = "done" /\ ~outcome.isError
    /\ Len(call.addresses) = 120
    /\ Len(Indices(log, IsProgress)) = 3

-----------------------------------------------------------------------------
(* Properties of the tool boundary *)

\* the call cannot be served whatever the upstream does: its name is no tool, its
\* lists are empty or missing, its tool needs the other credential, or its
\* package is unknown
InvalidCall ==
    \/ call.name \notin ToolNames
    \/ call.name \in BatchTools /\ ~Given(call, "addresses") /\ ~Given(call, "twitters")
    \/ call.name \in StreamingTools /\ ~Given(call, "addresses")
    \/ call.name \in {"check_credits", "set_credit_alert"} /\ ~API_KEY
    \/ call.name = "purchase_credits" /\ (~wallet \/ call.package \notin Packages)

\* the last thing the invocation did was to receive a response it cannot use: one
\* that is not 2xx, or any first response of purchase_credits other than the 402
\* it signs
UpstreamFailed ==
    /\ log # <<>>
    /\ IsResponse(log[Len(log)])
    /\ ~Ok(log[Len(log)].status) \/ call.name = "purchase_credits"

\* the invocation that has ended has failed
Failed == AUTH_MODE = "none" \/ InvalidCall \/ UpstreamFailed

\* the text is the one line "Error: <message>"
IsErrorLine(text) == Len(text) = 1 /\ Len(text[1]) = 2 /\ text[1][1] = "Error: "

\* C11 as stated: an invocation that has failed, for whatever reason, has returned
\* a result flagged isError whose text is the single line "Error: <message>".
C11_FailureIsErrorLine ==
    (pc = "done" /\ Failed) => outcome.isError /\ IsErrorLine(outcome.text)

\* C11 amended: an invocation that has ended has returned a result flagged isError
\* exactly when it has failed; with a credential configured the text of that
\* result is the single line "Error: <message>", with none it is the multi-line
\* configuration text; the handler ends every invocation by returning.
C11_FailureIsFlagged ==
    /\ pc \in {"main", "idle", "fetch", "await1", "fetch2", "await2", "fetch_return",
                "tracker", "tracker_store", "credits_return", "loop", "purchase1",
                "purchase_await1", "purchase2", "purchase_await2", "done"}
    /\ pc = "done" =>
          /\ Failed <=> outcome.isError
          /\ outcome.isError =>
                IF AUTH_MODE = "none"
                THEN outcome.text = NotConfiguredText /\ ~IsErrorLine(outcome.text)
                ELSE /\ IsErrorLine(outcome.text)
                     /\ outcome.text[1][2] \in {"config", "validation", "upstream",
                                                 "payment", "unknown_tool"}

\* a purchase whose payment was refused has ended with the error line
C11_Witness ==
    /\ pc = "done"
    /\ call.name = "purchase_credits"
    /\ Len(Fetches) = 2
    /\ outcome.isError
    /\ outcome.text = ErrorText("payment")

\* the call is for a credential-gated tool whose credential is not the active one
WrongMode(c) ==
    \/ c.name \in {"check_credits", "set_credit_alert"} /\ AUTH_MODE = "x402"
    \/ c.name = "purchase_credits" /\ AUTH_MODE = "api-key"

\* C12: when check_credits or set_credit_alert is invoked in Payment mode, or
\* purchase_credits in ApiKey mode, the handler returns a configuration error in
\* the same step: no network call and no notification has been made, and the
\* alert threshold and the last-known balance are what they were.
C12_WrongModeFailsFast ==
    [][(pc = "idle" /\ pc' # "idle" /\ WrongMode(call')) =>
          /\ pc' = "done"
          /\ outcome'.isError
          /\ outcome'.text = ErrorText("config")
          /\ log' = <<>>
          /\ customAlertThreshold' = customAlertThreshold
          /\ lastKnownCredits' = lastKnownCredits]_vars

\* purchase_credits has failed in ApiKey mode, with a balance and a threshold set
C12_Witness ==
    /\ pc = "done"
    /\ WrongMode(call)
    /\ call.name = "purchase_credits"
    /\ outcome.isError
    /\ lastKnownCredits = 900
    /\ customAlertThreshold = 500

-----------------------------------------------------------------------------
(* Properties of the last-known balance *)

\* the value is a balance the response in hand reports: the number in its credits
\* header, or the credits field of the body of /api/me
Reported(v) ==
    /\ Known(v)
    /\ \/ response.header # "" /\ v = parseInt(response.header)
       \/ req.kind = "me" /\ response.status = 200 /\ v = response.body.credits

\* C13: the last-known balance is unknown at startup, and every step that changes
\* it is a step of checkCreditsAndNotify that stores the value it was given, a
\* value the upstream reported; nothing else writes it and no value made up
\* locally is stored.
C13_BalanceOnlyFromTracker ==
    /\ lastKnownCredits = Null
    /\ [][lastKnownCredits' # lastKnownCredits =>
              /\ pc \in {"tracker", "tracker_store"}
              /\ lastKnownCredits' = pending
              /\ Reported(pending)]_vars

-----------------------------------------------------------------------------
(* Properties of the payment authorization *)

PaidFetches == SelectSeq(log, IsPaidFetch)

\* C14: every request that carries a payment header follows a 402 response at
\* once and carries an authorization no other request of the invocation carries;
\* a request that is not a paid retry carries none; every authorization built is
\* attached to one request; and the header is held only from its building to the
\* response of its one request, never beyond.
C14_AuthorizationUsedOnce ==
    /\ \A k \in 1..Len(log) :
          /\ IsPaidFetch(log[k]) =>
                /\ log[k].authorization # NoPayment
                /\ k > 1 /\ IsResponse(log[k - 1]) /\ log[k - 1].status = 402
          /\ IsUnpaidFetch(log[k]) => log[k].authorization = NoPayment
    /\ \A a, b \in 1..Len(PaidFetches) :
          a # b => PaidFetches[a].authorization # PaidFetches[b].authorization
    /\ draws = Len(PaidFetches) + (IF pc \in {"fetch2", "purchase2"} THEN 1 ELSE 0)
    /\ paymentHeader # NoPayment <=>
          pc \in {"fetch2", "await2", "purchase2", "purchase_await2"}
    /\ pc \in {"await2", "purchase_await2"} =>
          paymentHeader = PaidFetches[Len(PaidFetches)].authorization

\* a streaming run in Payment mode has paid for both of its chunks
C14_Witness ==
    /\ pc = "done"
    /\ Streaming
    /\ ~outcome.isError
    /\ Len(PaidFetches) = 2
    /\ PaidFetches[1].endpoint = PaidFetches[2].endpoint
    /\ draws = 2

-----------------------------------------------------------------------------
(* Properties of the notifications *)

Notes == SelectSeq(log, IsNote)

\* C15: whichever deliveries of an invocation have failed, the invocation goes on
\* as if they had not: its result is an error exactly when the call or a response
\* made it fail, a streaming run that has not failed has requested every chunk of
\* its list and returns the records it collected, and the balance the tracker
\* was last given is the balance stored.
C15_DeliveryFailureIsSwallowed ==
    /\ undelivered <= Len(Notes)
    /\ undelivered > 0 =>
          /\ pc = "done" => (Failed <=> outcome.isError)
          /\ outcome.kind \in {"pending", "ok", "config", "validation", "upstream",
                                "payment", "unknown_tool"}
          /\ (pc = "done" /\ Streaming /\ ~outcome.isError) =>
                /\ Flatten([k \in 1..Len(ChunkRequests) |-> ChunkRequests[k].body])
                      = call.addresses
                /\ outcome.records =
                      IF call.name = "batch_get_data_streaming" THEN foundItems ELSE results
                /\ Len(SelectSeq(Notes, LAMBDA e : e.kind = "result"))
                      = Len(SelectSeq(results, LAMBDA r : r.found))
          /\ (observations # <<>> /\ pc # "tracker_store") =>
                lastKnownCredits = observations[Len(observations)].credits

\* a streaming run over 51 items has ended well although none of its notifications,
\* a credit alert and a per-item result among them, was delivered
C15_Witness ==
    /\ pc = "done"
    /\ Streaming
    /\ ~outcome.isError
    /\ Len(call.addresses) = 51
    /\ undelivered = Len(Notes)
    /\ \E k \in 1..Len(Notes) : Notes[k].kind = "alert"
    /\ \E k \in 1..Len(Notes) : Notes[k].kind = "result"
    /\ lastKnownCredits = 900

-----------------------------------------------------------------------------
(* Properties of the order of a batch run *)

IsResult(e) == e.ev = "note" /\ e.kind = "result"

\* C16: in a streaming run a request is issued only when every request before it
\* has been answered, so at most one is outstanding; every "result" event follows
\* the successful response of its chunk with nothing but "result" events of that
\* chunk in between; and the "result" events sent are those of all the records
\* found so far, so none is left to send when the next chunk is requested.
C16_ChunksAreSequential ==
    Streaming =>
        /\ \A k \in 1..Len(log) :
              /\ IsFetch(log[k]) =>
                    Len(SelectSeq(SubSeq(log, 1, k - 1), IsFetch))
                        = Len(SelectSeq(SubSeq(log, 1, k - 1), IsResponse))
              /\ IsResponse(log[k]) => k > 1 /\ IsFetch(log[k - 1])
              /\ IsResult(log[k]) =>
                    \E j \in 1..(k - 1) :
                        /\ IsResponse(log[j]) /\ Ok(log[j].status)
                        /\ \A m \in (j + 1)..(k - 1) : IsResult(log[m])
        /\ Len(Fetches) - Len(Responses) = (IF pc \in {"await1", "await2"} THEN 1 ELSE 0)
        /\ Len(SelectSeq(log, IsResult)) = Len(SelectSeq(results, LAMBDA r : r.found))

\* a run over 120 items has ended after three chunks, two of which had a record found
C16_Witness ==
    /\ Streaming /\ pc = "done" /\ ~outcome.isError
    /\ Len(call.addresses) = 120
    /\ Len(ChunkRequests) = 3
    /\ Len(SelectSeq(log, IsResult)) >= 2

-----------------------------------------------------------------------------
(* Properties of the request executor in API-key mode *)

\* C17: in API-key mode every network call carries the API-key header and no
\* payment header; an invocation that executes fetchWithAuth once has made one
\* call when the execution is over; a response that is not 2xx, 402 included, or
\* a transport failure is the last thing that happens: the invocation ends with
\* an error (main goes on without a balance) and no call follows it.
C17_ApiKeyOneCall ==
    API_KEY =>
        /\ \A k \in 1..Len(log) :
              /\ IsFetch(log[k]) => log[k].apiKey /\ ~log[k].payment
              /\ (IsResponse(log[k]) /\ ~Ok(log[k].status)) =>
                    /\ k = Len(log)
                    /\ \/ pc = "done" /\ outcome.isError
                       \/ pc = "idle" /\ call.name = "main"
        /\ req.kind \in {"lookup", "batch", "me"} =>
              Len(Fetches) = (IF pc = "fetch" THEN 0 ELSE 1)
        /\ Len(Fetches) - Len(Responses) = (IF pc = "await1" THEN 1 ELSE 0)
        /\ Streaming =>
              \A a, b \in 1..Len(Fetches) : a # b => Fetches[a].body # Fetches[b].body

\* a lookup in API-key mode met a transport failure and has ended in an error
\* after its one call
C17_Witness ==
    /\ API_KEY
    /\ pc = "done"
    /\ call.name \in LookupTools
    /\ outcome.isError
    /\ Len(Fetches) = 1
    /\ Len(Responses) = 1 /\ Responses[1].status = 0

-----------------------------------------------------------------------------
(* Properties of the tool catalog *)

\* the catalog lists the two credit tools exactly with an API key, purchase_credits
\* exactly in Payment mode, and the eight lookup and batch tools always
CatalogFollowsCredentials ==
    /\ "check_credits" \in tools <=> API_KEY
    /\ "set_credit_alert" \in tools <=> API_KEY
    /\ "purchase_credits" \in tools <=> (PRIVATE_KEY /\ ~API_KEY)
    /\ LookupTools \cup BatchTools \cup StreamingTools \subseteq tools
    /\ Cardinality(LookupTools \cup BatchTools \cup StreamingTools) = 8

\* the invocation has ended with a configuration error
ConfigurationError ==
    outcome.isError /\ outcome.kind \in {"config", "not_configured"}

\* C18 as stated: the catalog follows the credentials, and in every mode a tool is
\* listed exactly when invoking it does not end with a configuration error.
C18_ListedIffUsable ==
    /\ CatalogFollowsCredentials
    /\ (pc = "done" /\ call.name \in ToolNames) =>
          (call.name \in tools <=> ~ConfigurationError)

\* C18 amended: the catalog follows the credentials; in ApiKey and Payment mode a
\* tool is listed exactly when invoking it does not end with a configuration
\* error; with no credential the eight lookup and batch tools are listed although
\* every invocation ends with the configuration error.
C18_ListedIffUsableWhenConfigured ==
    /\ CatalogFollowsCredentials
    /\ (pc = "done" /\ call.name \in ToolNames) =>
          IF AUTH_MODE = "none"
          THEN /\ ConfigurationError
               /\ tools = LookupTools \cup BatchTools \cup StreamingTools
          ELSE call.name \in tools <=> ~ConfigurationError

\* purchase_credits, listed in Payment mode, has been invoked and has bought credits
C18_Witness ==
    /\ pc = "done"
    /\ call.name = "purchase_credits"
    /\ call.name \in tools
    /\ ~outcome.isError
    /\ "check_credits" \notin tools

-----------------------------------------------------------------------------
(* Properties of the validation of batch calls *)

\* the call is for a batch tool and gives it no item: both lists of batch_check or
\* batch_get_data, or the addresses of a streaming tool, are empty or missing
NoItems(c) ==
    \/ c.name \in BatchTools /\ ~Given(c, "addresses") /\ ~Given(c, "twitters")
    \/ c.name \in StreamingTools /\ ~Given(c, "addresses")

\* C19: a batch tool invoked with no item has returned an error result without
\* a network call and without a notification; with a credential configured the
\* error is the validation error.
C19_EmptyBatchFailsFast ==
    NoItems(call) =>
        /\ pc = "done"
        /\ outcome.isError
        /\ log = <<>>
        /\ undelivered = 0
        /\ AUTH_MODE # "none" => outcome.text = ErrorText("validation")

\* batch_get_data_streaming was invoked without its addresses and has failed
C19_Witness ==
    /\ pc = "done"
    /\ call.name = "batch_get_data_streaming"
    /\ "addresses" \in call.absent
    /\ AUTH_MODE = "api-key"
    /\ outcome.text = ErrorText("validation")
    /\ log = <<>>

-----------------------------------------------------------------------------
(* Properties of set_credit_alert *)

\* C20: the step that handles set_credit_alert ends the invocation: it leaves the
\* last-known balance as it was and makes no network call; with an API key it
\* sets the threshold to its argument and sends the info-level confirmation and
\* nothing else, whatever the stored balance is; without one it sends nothing and
\* leaves the threshold as it was.
C20_SetCreditAlertFrame ==
    [][(pc = "idle" /\ pc' # "idle" /\ call'.name = "set_credit_alert") =>
          /\ pc' = "done"
          /\ lastKnownCredits' = lastKnownCredits
          /\ \A k \in 1..Len(log') : ~IsFetch(log'[k]) /\ ~IsAlert(log'[k])
          /\ IF API_KEY
             THEN /\ customAlertThreshold' = call'.threshold
                  /\ ~outcome'.isError
                  /\ log' = <<sendNotification("info", "threshold",
                                  [threshold |-> call'.threshold])>>
             ELSE /\ customAlertThreshold' = customAlertThreshold
                  /\ outcome'.isError
                  /\ log' = <<>>]_vars

\* the threshold was set to 500 while the stored balance was 300: the confirmation
\* is all that was sent
C20_Witness ==
    /\ pc = "done"
    /\ call.name = "set_credit_alert"
    /\ customAlertThreshold = 500
    /\ lastKnownCredits = 300
    /\ Len(log) = 1 /\ log[1].level = "info"
    /\ ~outcome.isError

-----------------------------------------------------------------------------
(* Properties of the paid retry *)

\* the responses 402 of the log that answer a request without a payment header
Challenges ==
    SelectSeq([k \in 1..Len(log) |-> k],
              LAMBDA k : /\ IsResponse(log[k]) /\ log[k].status = 402
                         /\ k > 1 /\ IsUnpaidFetch(log[k - 1]))

\* C21: in Payment mode a request with a payment header comes straight after a
\* response 402 to a request without one, for the same URL and body; a request
\* that does not follow a 402 carries no payment header; a response other than
\* 402 is never followed by a paid request, and no more authorizations are built
\* than 402 challenges were received.
C21_PaymentOnlyAfter402 ==
    ~API_KEY =>
        /\ \A k \in 1..Len(log) :
              /\ IsPaidFetch(log[k]) =>
                    /\ k >= 3
                    /\ IsResponse(log[k - 1]) /\ log[k - 1].status = 402
                    /\ IsUnpaidFetch(log[k - 2])
                    /\ log[k - 2].endpoint = log[k].endpoint
                    /\ log[k - 2].body = log[k].body
              /\ (IsFetch(log[k]) /\ (k = 1 \/ ~IsResponse(log[k - 1])
                                             \/ log[k - 1].status # 402)) =>
                    ~log[k].payment
              /\ (IsResponse(log[k]) /\ log[k].status # 402 /\ k < Len(log)) =>
                    ~IsPaidFetch(log[k + 1])
        /\ draws <= Len(Challenges)
        /\ pc \in {"fetch2", "purchase2"} =>
              IsResponse(log[Len(log)]) /\ log[Len(log)].status = 402

\* the first request of purchase_credits was answered 200: the purchase has failed
\* and nothing was signed or sent after it
C21_Witness ==
    /\ pc = "done"
    /\ call.name = "purchase_credits"
    /\ outcome.isError
    /\ Len(Fetches) = 1
    /\ Responses[1].status = 200
    /\ draws = 0

-----------------------------------------------------------------------------
(* Properties of the per-item result events *)

\* the records of the "result" events sent so far, in the order of sending
ReportedItems ==
    LET R == SelectSeq(log, IsResult) IN [k \in 1..Len(R) |-> R[k].data]

\* the chunk an item of the list belongs to
ChunkOf(id) == ((id - 1) \div batchSize) + 1

-----------------------------------------------------------------------------
(* Properties of the normalization *)

\* the mappings of the successful responses of the run, in the order of receipt;
\* a response without the mapping counts as an empty one
ReceivedMappings ==
    LET R == SelectSeq(log, LAMBDA e : IsResponse(e) /\ Ok(e.status))
    IN  [k \in 1..Len(R) |-> IF R[k].body.present THEN R[k].body.entries ELSE <<>>]

\* the last response of the run is received and its entries are not collected yet
Uncollected == pc \in {"fetch_return", "tracker", "tracker_store"}

\* the records a sequence of mappings stands for: for each mapping in turn, one
\* record per entry in the mapping's order, with the entry's key and found flag
RECURSIVE RecordsOf(_)
RecordsOf(mappings) ==
    IF mappings = <<>> THEN <<>>
    ELSE [k \in 1..Len(Head(mappings)) |->
             [id |-> Head(mappings)[k].key, found |-> Head(mappings)[k].found]]
         \o RecordsOf(Tail(mappings))

-----------------------------------------------------------------------------
(* Properties of the tracker's invocation *)

\* the alerts of the run so far
Alerts == SelectSeq(log, IsAlert)

\* the last response the run has received was a successful one
LastResponseOk == Responses # <<>> /\ Ok(Responses[Len(Responses)].status)

\* C25: with an API key, the step that receives a response that is not ok,
\* whatever its credits header, ends the request in an error with the stored
\* balance and the alerts as they were and without entering the tracker; the
\* tracker is entered, and the balance of a tool invocation changed or an alert
\* sent, only after a successful response and before the result is there.
C25_TrackerOnlyAfterSuccess ==
    [][ API_KEY =>
          /\ (pc = "await1" /\ pc' # "await1" /\ ~Ok(log'[Len(log')].status)) =>
                /\ lastKnownCredits' = lastKnownCredits
                /\ observations' = observations
                /\ SelectSeq(log', IsAlert) = Alerts
                /\ pc' \in {"done", "idle"}
                /\ (call.name # "main" => outcome'.isError)
          /\ (pc' = "tracker" /\ pc # "tracker") =>
                /\ Responses' # <<>>
                /\ Ok(Responses'[Len(Responses')].status)
                /\ outcome' = outcome
          /\ (call.name # "main" /\ call' = call
                /\ (lastKnownCredits' # lastKnownCredits \/ SelectSeq(log', IsAlert) # Alerts)) =>
                /\ pc \in {"tracker", "tracker_store"}
                /\ LastResponseOk
                /\ pc' # "done" /\ pc' # "idle"
      ]_vars

\* with an API key and a balance of 1500 stored, a tool invocation has ended in
\* an error on a response of status 500 with the credits header "50"
C25_Witness ==
    /\ API_KEY
    /\ pc = "done" /\ outcome.isError
    /\ log # <<>>
    /\ IsResponse(log[Len(log)])
    /\ log[Len(log)].status = 500
    /\ log[Len(log)].header = "50"
    /\ lastKnownCredits = 1500
    /\ Alerts = <<>>

-----------------------------------------------------------------------------
(* Properties of the stored threshold *)

\* a number of at least zero
NonNegativeNumber(t) == t # Null /\ t # NaN /\ t >= 0

\* C26: the stored threshold is a number of at least zero in every reachable
\* state, whatever threshold arguments set_credit_alert was given; a
\* set_credit_alert that returns an error result leaves the stored threshold as
\* it was, and a check_credits that got its balance returns no error.
C26_ThresholdStaysValid ==
    /\ [](NonNegativeNumber(customAlertThreshold))
    /\ [][ /\ (pc = "idle" /\ call'.name = "set_credit_alert" /\ outcome'.isError) =>
                 customAlertThreshold' = customAlertThreshold
           /\ (pc = "credits_return" /\ pc' = "done") => ~outcome'.isError
         ]_vars

-----------------------------------------------------------------------------
(* Termination of an invocation *)

\* a tool invocation is being handled
Busy == call.name # "main"

\* ceil(n / 50)
Ceil50(n) == (n + 49) \div 50

\* C24: when every request and delivery resolves, a tool invocation that is
\* being handled comes to a result, which the host then gets; the result is set
\* once, when the invocation ends; a streaming run over n items has ended after
\* ceil(n/50) iterations when all succeeded and after at most that many when it
\* failed.
C24_InvocationReturnsOnce ==
    /\ Busy ~> (pc = "done" /\ outcome # NoOutcome)
    /\ (pc = "done") ~> (pc = "idle")
    /\ [][ outcome' # outcome =>
               \/ outcome = NoOutcome /\ pc # "done" /\ pc' = "done"
               \/ pc = "done" /\ pc' = "idle" /\ outcome' = NoOutcome
         ]_vars
    /\ []((Streaming /\ pc = "done" /\ call.addresses # <<>>) =>
            /\ ~outcome.isError => Len(ChunkRequests) = Ceil50(Len(call.addresses))
            /\ outcome.isError => Len(ChunkRequests) <= Ceil50(Len(call.addresses)))

\* a streaming run over 51 items has ended well after two iterations
C24_Witness ==
    /\ Streaming /\ pc = "done" /\ ~outcome.isError
    /\ Len(call.addresses) = 51
    /\ Len(ChunkRequests) = 2
    /\ Len(SelectSeq(log, IsProgress)) = 2

-----------------------------------------------------------------------------
(* Properties of the tracker under overlapping requests *)

\* the balances stored one after the other in SpecOverlap, which starts with 1500
StoredBalances == <<1500>> \o ObservedCredits

\* the times the stored balance went from above a threshold to it or below
DownCrossings(threshold) ==
    Cardinality({k \in 2..Len(StoredBalances) :
                    Crossing(StoredBalances[k - 1], StoredBalances[k], threshold)})

\* the stores that came with an alert for a threshold
AlertedStores(threshold) ==
    Cardinality({k \in 1..Len(observations) :
                    \E n \in 1..Len(observations[k].alert) :
                        observations[k].alert[n].data.threshold = threshold})

\* C27: with tool requests in flight side by side, there is at most one alert
\* for a threshold per time the stored balance crosses it downwards.
C27_OneAlertPerCrossingUnderOverlap ==
    \A threshold \in {LOW_CREDIT_WARNING, CRITICAL_CREDIT_WARNING} :
        AlertedStores(threshold) <= DownCrossings(threshold)

-----------------------------------------------------------------------------
(* Properties of the startup query *)

\* C28: with the startup query of main in flight beside tool requests, a store
\* that takes the balance from above a threshold to it or below comes from a
\* tracker call that sent an alert for the balance it stores, and the store of
\* main does not replace a balance stored from a response that came after main's.
C28_StartupQueryKeepsTracker ==
    [][ lastKnownCredits' # lastKnownCredits =>
          /\ \A threshold \in {LOW_CREDIT_WARNING, CRITICAL_CREDIT_WARNING} :
                Crossing(lastKnownCredits, lastKnownCredits', threshold) =>
                    LET alert == observations'[Len(observations')].alert
                    IN  /\ alert # <<>>
                        /\ alert[1].data.credits = lastKnownCredits'
                        /\ alert[1].data.threshold <= threshold
          /\ (flows[MainFlow].pc = "main_store" /\ flows'[MainFlow].pc = "done") =>
                \A g \in DOMAIN flows \ {MainFlow} :
                    flows[g].stored => flows[g].seq < flows[MainFlow].seq
      ]_vars

====
